---- MODULE Spec2Model ----
(***************************************************************************)
(* Model of pysolovideo.tracking.monitor.Monitor: construction, the        *)
(* per-frame loop of run(), its exception handlers and finally block, and  *)
(* the public accessors.  The collaborators (camera, tracking units,       *)
(* result writer, OpenCV window and video writer) are modelled by the      *)
(* outcomes their calls can have: a value, nothing, or a raised exception. *)
(***************************************************************************)
EXTENDS Integers, Sequences, FiniteSets

\* ---------------------------------------------------------------- bounds
MaxFrames == 3      \* frames the camera can yield over the object's life
MaxRois   == 2      \* largest ROI list given to the constructor

\* -------------------------------------------------------------- values
\* Python's None and a present value are <<>> and <<v>>.
None == <<>>
Some(v) == <<v>>
Val(o) == o[1]

\* Timestamps (ms) the camera can attach to a frame.
Times == {1000, 1500}

\* max_duration arguments (seconds): absent, or one second.
Durations == {None, Some(1)}

\* Positions a tracking unit can report (absolute coordinates).
Positions ==
    { [x |-> 1, has_interacted |-> FALSE, is_inferred |-> FALSE],
      [x |-> 2, has_interacted |-> TRUE,  is_inferred |-> TRUE] }

\* The two classes of exception run() distinguishes.  The pysolovideo
\* collaborators (camera, tracking units, result writer) can raise either;
\* OpenCV and the drawing code raise no PSVException.
ErrorKinds == {"PSVException", "Exception"}
CvErrorKinds == {"Exception"}

VARIABLES
    pc,               \* position of the constructor / run() caller
    ctor_args,        \* the arguments of the constructor call
    ctor_error,       \* the exception __init__ raised to its caller, or None
    _result_file, _draw_results, draw_every_n, _max_duration, _video_out,
    _unit_trackers,   \* sequence of [roi, interactor]
    _exception, _force_stop, _last_positions, _last_time_stamp,
    _frame_buffer, _is_running,
    vw, result_writer, i, t, frame, j, data_row, abs_pos, tmp,   \* run() locals
    raised,           \* the exception in flight to an except clause
    cam_n,            \* frames the camera has yielded so far
    window,           \* the display window: "none", "open", "closed"
    encoder,          \* the VideoWriter of this run
    sink,             \* the ResultWriter of this run: "none", "open", "closed"
    frame_io,         \* collaborator calls made for the current frame
    log,              \* what this run has logged, and where it raised
    stop_at,          \* index of the frame in progress when stop() set the flag
    ret               \* outcome of the accessor call just made

obj_vars == <<_result_file, _draw_results, draw_every_n, _max_duration, _video_out,
              _unit_trackers, _exception, _force_stop, _last_positions,
              _last_time_stamp, _frame_buffer, _is_running>>
cfg_vars == <<_result_file, _draw_results, draw_every_n, _max_duration, _video_out,
              _unit_trackers>>
run_vars == <<vw, result_writer, i, t, frame, j, data_row, abs_pos, tmp, raised>>
env_vars == <<cam_n, window, encoder, sink, frame_io, log, stop_at>>
vars == <<pc, ctor_args, ctor_error, obj_vars, run_vars, env_vars, ret>>

NoCall == [op |-> "none", raised |-> None, value |-> None]
NoEncoder == [state |-> "unopened", opens |-> 0, releases |-> 0,
              opened_at |-> None, late_writes |-> 0]
NoLog == [end |-> "none", raised |-> None, at |-> None, closing |-> FALSE]
NoFrameIO == [tracked |-> <<>>, written |-> <<>>, flushes |-> 0,
              renders |-> 0, shown |-> 0, encoded |-> 0]

Init ==
    /\ pc = "new"
    /\ ctor_args = None
    /\ ctor_error = None
    /\ _result_file = None /\ _draw_results = FALSE /\ draw_every_n = 1
    /\ _max_duration = None /\ _video_out = None
    /\ _unit_trackers = <<>>
    /\ _exception = None /\ _force_stop = FALSE
    /\ _last_positions = <<>>
    /\ _last_time_stamp = 0 /\ _frame_buffer = None /\ _is_running = FALSE
    /\ vw = None /\ result_writer = None /\ i = -1 /\ t = 0 /\ frame = None
    /\ j = 0 /\ data_row = None /\ abs_pos = None /\ tmp = None /\ raised = None
    /\ cam_n = 0
    /\ window = "none" /\ encoder = NoEncoder /\ sink = "none"
    /\ frame_io = NoFrameIO
    /\ log = NoLog
    /\ stop_at = None
    /\ ret = NoCall

\* ------------------------------------------------------------ __init__
\* self._max_duration = max_duration * 1000: None * 1000 is a TypeError.
MaxDurationMs(max_duration) ==
    IF max_duration = None THEN [error |-> Some("TypeError"), value |-> None]
    ELSE [error |-> None, value |-> Some(Val(max_duration) * 1000)]

Min(a, b) == IF a < b THEN a ELSE b

\* Variant: no length test, zip() pairs as many as both lists have.
UnitTrackersZipped(n_rois, interactors) ==
    IF interactors = None
    THEN [error |-> None,
          value |-> [r \in 1..n_rois |-> [roi |-> r, interactor |-> None]]]
    ELSE [error |-> None,
          value |-> [r \in 1..Min(n_rois, Val(interactors)) |->
                       [roi |-> r, interactor |-> Some(r)]]]

\* The three branches that build self._unit_trackers (interactors is the
\* length of the list given, or None).
UnitTrackers(n_rois, interactors) ==
    IF interactors = None
    THEN [error |-> None,
          value |-> [r \in 1..n_rois |-> [roi |-> r, interactor |-> None]]]
    ELSE IF Val(interactors) = n_rois
    THEN [error |-> None,
          value |-> [r \in 1..n_rois |-> [roi |-> r, interactor |-> Some(r)]]]
    ELSE [error |-> Some("ValueError"), value |-> <<>>]

\* Monitor(camera, tracker_class, rois, interactors, result_file,
\*         draw_results, draw_every_n, video_out, max_duration)
\* with a ROI list of MaxRois regions and a duration of one second.
Call(inter, file, draw, every_n, video) ==
    [rois |-> MaxRois, interactors |-> inter, result_file |-> file,
     draw_results |-> draw, draw_every_n |-> every_n,
     video_out |-> video, max_duration |-> Some(1)]

\* The well-formed calls: every combination of display, stride and
\* recording, each with or without a result file and interactors.
GoodCalls ==
    { Call(None,          None,               FALSE, 1, None),
      Call(Some(MaxRois), Some("results.db"), FALSE, 1, Some("out.avi")),
      Call(None,          Some("results.db"), TRUE,  1, None),
      Call(Some(MaxRois), None,               TRUE,  2, None),
      Call(None,          None,               TRUE,  1, Some("out.avi")),
      Call(Some(MaxRois), Some("results.db"), TRUE,  2, Some("out.avi")) }

\* The calls made: each well-formed call, and its variants with no
\* max_duration and with an interactor list one short of the ROI list.
CtorArgs ==
    GoodCalls
    \cup { [c EXCEPT !.max_duration = None] : c \in GoodCalls }
    \cup { [c EXCEPT !.interactors = Some(MaxRois - 1), !.max_duration = d] :
             c \in GoodCalls, d \in Durations }

Construct ==
    /\ pc = "new"
    /\ \E a \in CtorArgs :
        LET md == MaxDurationMs(a.max_duration)
            ut == UnitTrackers(a.rois, a.interactors)
        IN  /\ ctor_args' = Some(a)
            /\ IF md.error # None
               THEN /\ ctor_error' = md.error
                    /\ pc' = "ctor_failed"
                    /\ UNCHANGED cfg_vars
               ELSE IF ut.error # None
               THEN /\ ctor_error' = ut.error
                    /\ pc' = "ctor_failed"
                    /\ UNCHANGED cfg_vars
               ELSE /\ ctor_error' = None
                    /\ pc' = "idle"
                    /\ _result_file' = a.result_file
                    /\ _draw_results' = a.draw_results
                    /\ draw_every_n' = a.draw_every_n
                    /\ _max_duration' = md.value
                    /\ _video_out' = a.video_out
                    /\ _unit_trackers' = ut.value
    /\ UNCHANGED <<_exception, _force_stop, _last_positions, _last_time_stamp,
                   _frame_buffer, _is_running, run_vars, env_vars, ret>>

Constructed == pc \notin {"new", "ctor_failed"}


ctor_vars == <<ctor_args, ctor_error, cfg_vars>>
state_vars == <<_exception, _force_stop, _last_positions, _last_time_stamp,
                _frame_buffer, _is_running>>

\* A collaborator raises an exception of one of kinds: control goes to the
\* except clauses of run().  tracked is the list of units invoked so far
\* for the current frame.
Throw(kinds, tracked) ==
    /\ \E k \in kinds : raised' = Some([kind |-> k])
    /\ pc' = "except"
    /\ log' = [log EXCEPT !.raised = raised',
                          !.at = Some([i |-> i, tracked |-> tracked, cam_n |-> cam_n])]
    /\ ret' = NoCall

\* A call that raises before it has had any effect.
RaisesAt(site, kinds) ==
    /\ pc = site
    /\ Throw(kinds, frame_io.tracked)
    /\ UNCHANGED <<ctor_vars, state_vars, vw, result_writer, i, t, frame, j,
                   data_row, abs_pos, tmp, cam_n, window, encoder, sink,
                   frame_io, stop_at>>

\* ------------------------------------------------------ run(): preamble
RunStart ==
    /\ pc = "idle"
    /\ pc' = "namedWindow"
    /\ vw' = None /\ result_writer' = None
    /\ i' = -1 /\ t' = 0 /\ frame' = None /\ j' = 0
    /\ data_row' = None /\ abs_pos' = None /\ tmp' = None /\ raised' = None
    /\ encoder' = NoEncoder /\ frame_io' = NoFrameIO /\ log' = NoLog
    /\ stop_at' = IF _force_stop THEN Some(-1) ELSE None
    /\ ret' = NoCall
    /\ UNCHANGED <<ctor_vars, state_vars, cam_n, window, sink>>

NamedWindow ==
    /\ pc = "namedWindow"
    /\ window' = IF _draw_results THEN "open" ELSE window
    /\ pc' = "resultWriter"
    /\ ret' = NoCall
    /\ UNCHANGED <<ctor_vars, state_vars, run_vars, cam_n, encoder, sink,
                   frame_io, log, stop_at>>

NamedWindowRaises == _draw_results /\ RaisesAt("namedWindow", CvErrorKinds)

\* result_writer = ResultWriter(...), then self._is_running = True.
MakeResultWriter ==
    /\ pc = "resultWriter"
    /\ IF _result_file # None
       THEN result_writer' = Some("ResultWriter") /\ sink' = "open"
       ELSE UNCHANGED <<result_writer, sink>>
    /\ _is_running' = TRUE
    /\ pc' = "next"
    /\ ret' = NoCall
    /\ UNCHANGED <<ctor_vars, _exception, _force_stop, _last_positions,
                   _last_time_stamp, _frame_buffer, vw, i, t, frame, j, data_row,
                   abs_pos, tmp, raised, cam_n, window, encoder, frame_io,
                   log, stop_at>>

ResultWriterRaises == _result_file # None /\ RaisesAt("resultWriter", ErrorKinds)

\* ------------------------------------------- run(): the head of the loop
CameraNext ==
    /\ pc = "next"
    /\ cam_n < MaxFrames
    /\ \E ts \in Times : t' = ts
    /\ cam_n' = cam_n + 1
    /\ frame' = Some(cam_n + 1)
    /\ i' = i + 1
    /\ frame_io' = NoFrameIO
    /\ pc' = "check"
    /\ ret' = NoCall
    /\ UNCHANGED <<ctor_vars, state_vars, vw, result_writer, j, data_row, abs_pos,
                   tmp, raised, window, encoder, sink, log, stop_at>>

\* Variant: the end of the camera's iteration is taken for a failure and
\* stored as one.
CameraExhaustedStored ==
    /\ pc = "next"
    /\ pc' = "finally"
    /\ _exception' = Some([kind |-> "Exception"])
    /\ ret' = NoCall
    /\ UNCHANGED <<ctor_vars, _force_stop, _last_positions, _last_time_stamp,
                   _frame_buffer, _is_running, run_vars, env_vars>>

CameraExhausted ==
    /\ pc = "next"
    /\ pc' = "finally"
    /\ ret' = NoCall
    /\ UNCHANGED <<ctor_vars, state_vars, run_vars, env_vars>>

CameraRaises == RaisesAt("next", ErrorKinds)

\* Variant: the limit, already in ms, is converted once more.
TimedOutConvertedTwice(ts, max_ms) == max_ms # None /\ ts > Val(max_ms) * 1000

\* elif (self._max_duration is not None and t > self._max_duration)
TimedOut(ts, max_ms) == max_ms # None /\ ts > Val(max_ms)

\* Variant: the loop tests the timeout only.
LoopCheckTimeoutOnly(force_stop, ts, max_ms) ==
    IF TimedOut(ts, max_ms) THEN "timeout" ELSE "process"

\* Variant: the loop tests the stop flag only.
LoopCheckStopOnly(force_stop, ts, max_ms) ==
    IF force_stop THEN "stop request" ELSE "process"

\* The if / elif at the top of the loop body: which way the frame goes.
LoopCheck(force_stop, ts, max_ms) ==
    IF force_stop THEN "stop request"
    ELSE IF TimedOut(ts, max_ms) THEN "timeout"
    ELSE "process"

StopBreak ==
    /\ pc = "check"
    /\ LoopCheck(_force_stop, t, _max_duration) = "stop request"
    /\ log' = [log EXCEPT !.end = "stop request"]
    /\ pc' = "finally"
    /\ ret' = NoCall
    /\ UNCHANGED <<ctor_vars, state_vars, run_vars, cam_n, window, encoder,
                   sink, frame_io, stop_at>>

TimeoutBreak ==
    /\ pc = "check"
    /\ LoopCheck(_force_stop, t, _max_duration) = "timeout"
    /\ log' = [log EXCEPT !.end = "timeout"]
    /\ pc' = "finally"
    /\ ret' = NoCall
    /\ UNCHANGED <<ctor_vars, state_vars, run_vars, cam_n, window, encoder,
                   sink, frame_io, stop_at>>

RecordFrame ==
    /\ pc = "check"
    /\ LoopCheck(_force_stop, t, _max_duration) = "process"
    /\ _last_time_stamp' = t
    /\ _frame_buffer' = frame
    /\ pc' = "videoWriter"
    /\ ret' = NoCall
    /\ UNCHANGED <<ctor_vars, _exception, _force_stop, _last_positions, _is_running,
                   run_vars, env_vars>>

\* if self._video_out is not None and vw is None: vw = cv2.VideoWriter(...)
NeedsVideoWriter == _video_out # None /\ vw = None

OpenVideoWriter ==
    /\ pc = "videoWriter"
    /\ IF NeedsVideoWriter
       THEN /\ vw' = Some("VideoWriter")
            /\ encoder' = [encoder EXCEPT !.state = "open", !.opens = @ + 1,
                                          !.opened_at = Some(i)]
       ELSE UNCHANGED <<vw, encoder>>
    /\ j' = 1
    /\ pc' = "track"
    /\ ret' = NoCall
    /\ UNCHANGED <<ctor_vars, state_vars, result_writer, i, t, frame, data_row,
                   abs_pos, tmp, raised, cam_n, window, sink, frame_io, log,
                   stop_at>>

VideoWriterRaises == NeedsVideoWriter /\ RaisesAt("videoWriter", CvErrorKinds)

\* ------------------------------------------ run(): the tracking units
NUnits == Len(_unit_trackers)
Roi(k) == _unit_trackers[k].roi
\* Variant: the unit loop is left as soon as the stop flag is seen set.
AfterUnitStoppable(k) ==
    IF _force_stop \/ k + 1 > NUnits THEN "flush" ELSE "track"

AfterUnit(k) == IF k + 1 > NUnits THEN "flush" ELSE "track"
Tracked(k) == [frame_io EXCEPT !.tracked = Append(@, Roi(k))]

\* data_row = track_u(t, frame) is None: continue
TrackerYieldsNothing ==
    /\ pc = "track"
    /\ frame_io' = Tracked(j)
    /\ j' = j + 1
    /\ pc' = AfterUnit(j)
    /\ ret' = NoCall
    /\ UNCHANGED <<ctor_vars, state_vars, vw, result_writer, i, t, frame, data_row,
                   abs_pos, tmp, raised, cam_n, window, encoder, sink, log,
                   stop_at>>

TrackerYieldsRow ==
    /\ pc = "track"
    /\ frame_io' = Tracked(j)
    /\ data_row' = Some([t |-> t, roi |-> Roi(j)])
    /\ pc' = "position"
    /\ ret' = NoCall
    /\ UNCHANGED <<ctor_vars, state_vars, vw, result_writer, i, t, frame, j, abs_pos,
                   tmp, raised, cam_n, window, encoder, sink, log, stop_at>>

\* Variant: the failure of one unit is logged and the next unit is tried.
TrackerRaisesIsolated ==
    /\ pc = "track"
    /\ frame_io' = Tracked(j)
    /\ \E k \in ErrorKinds :
         log' = [log EXCEPT !.raised = Some([kind |-> k]),
                            !.at = Some([i |-> i, tracked |-> frame_io'.tracked,
                                         cam_n |-> cam_n])]
    /\ j' = j + 1
    /\ pc' = AfterUnit(j)
    /\ ret' = NoCall
    /\ UNCHANGED <<ctor_vars, state_vars, vw, result_writer, i, t, frame, data_row,
                   abs_pos, tmp, raised, cam_n, window, encoder, sink, stop_at>>

TrackerRaises ==
    /\ pc = "track"
    /\ frame_io' = Tracked(j)
    /\ Throw(ErrorKinds, frame_io'.tracked)
    /\ UNCHANGED <<ctor_vars, state_vars, vw, result_writer, i, t, frame, j,
                   data_row, abs_pos, tmp, cam_n, window, encoder, sink, stop_at>>

\* abs_pos = track_u.get_last_position(absolute=True)
GetLastPosition ==
    /\ pc = "position"
    /\ \E p \in {None} \cup {Some(q) : q \in Positions} : abs_pos' = p
    /\ pc' = "upsert"
    /\ ret' = NoCall
    /\ UNCHANGED <<ctor_vars, state_vars, vw, result_writer, i, t, frame, j,
                   data_row, tmp, raised, env_vars>>

GetLastPositionRaises == RaisesAt("position", ErrorKinds)

\* dict assignment d[k] = v
Put(d, k, v) == [r \in DOMAIN d \cup {k} |-> IF r = k THEN v ELSE d[r]]

\* Variant: setdefault -- a ROI's first position is never replaced.
UpdatePositionsOnce(positions, idx, pos) ==
    IF pos # None /\ idx \notin DOMAIN positions
    THEN Put(positions, idx, Val(pos)) ELSE positions

\* Variant: an entry is stored for the unit whatever it reported.
UpdatePositionsAlways(positions, idx, pos) ==
    Put(positions, idx,
        IF pos # None THEN Val(pos)
        ELSE [x |-> 0, has_interacted |-> FALSE, is_inferred |-> TRUE])

\* if abs_pos is not None: self._last_positions[track_u.roi.idx] = abs_pos
UpdatePositions(positions, idx, pos) ==
    IF pos # None THEN Put(positions, idx, Val(pos)) ELSE positions

\* Variant: the sink is flushed after each write, inside the unit loop.
UpsertFlushing ==
    /\ pc = "upsert"
    /\ _last_positions' = UpdatePositions(_last_positions, Roi(j), abs_pos)
    /\ frame_io' = IF result_writer # None
                   THEN [frame_io EXCEPT !.written = Append(@, Roi(j)),
                                         !.flushes = @ + 1]
                   ELSE frame_io
    /\ j' = j + 1
    /\ data_row' = None /\ abs_pos' = None
    /\ pc' = AfterUnit(j)
    /\ ret' = NoCall
    /\ UNCHANGED <<ctor_vars, _exception, _force_stop, _last_time_stamp,
                   _frame_buffer, _is_running, vw, result_writer, i, t, frame, tmp,
                   raised, cam_n, window, encoder, sink, log, stop_at>>

\* if not result_writer is None: result_writer.write(t, track_u.roi, data_row)
Upsert ==
    /\ pc = "upsert"
    /\ _last_positions' = UpdatePositions(_last_positions, Roi(j), abs_pos)
    /\ frame_io' = IF result_writer # None
                   THEN [frame_io EXCEPT !.written = Append(@, Roi(j))]
                   ELSE frame_io
    /\ j' = j + 1
    /\ data_row' = None /\ abs_pos' = None
    /\ pc' = AfterUnit(j)
    /\ ret' = NoCall
    /\ UNCHANGED <<ctor_vars, _exception, _force_stop, _last_time_stamp,
                   _frame_buffer, _is_running, vw, result_writer, i, t, frame, tmp,
                   raised, cam_n, window, encoder, sink, log, stop_at>>

\* result_writer.write raises: the position has already been stored.
WriteRaises ==
    /\ pc = "upsert"
    /\ result_writer # None
    /\ _last_positions' = UpdatePositions(_last_positions, Roi(j), abs_pos)
    /\ Throw(ErrorKinds, frame_io.tracked)
    /\ UNCHANGED <<ctor_vars, _exception, _force_stop, _last_time_stamp,
                   _frame_buffer, _is_running, vw, result_writer, i, t, frame, j,
                   data_row, abs_pos, tmp, cam_n, window, encoder, sink, frame_io,
                   stop_at>>

\* if not result_writer is None: result_writer.flush()
Flush ==
    /\ pc = "flush"
    /\ frame_io' = IF result_writer # None
                   THEN [frame_io EXCEPT !.flushes = @ + 1]
                   ELSE frame_io
    /\ pc' = "draw"
    /\ ret' = NoCall
    /\ UNCHANGED <<ctor_vars, state_vars, run_vars, cam_n, window, encoder,
                   sink, log, stop_at>>

FlushRaises == result_writer # None /\ RaisesAt("flush", ErrorKinds)

\* ------------------------------------------------- rendering and output
RoiColour(pos) == IF pos.has_interacted THEN "green" ELSE "magenta"
EllipseColour(pos) == IF pos.is_inferred = TRUE THEN "blue" ELSE "cyan"

\* _draw_on_frame: what is drawn on the copy for each tracking unit.  A ROI
\* without a position gets its label only (continue on KeyError).
DrawOnFrame(frm, positions) ==
    [frame |-> Val(frm),
     drawn |-> [k \in 1..NUnits |->
                  IF Roi(k) \in DOMAIN positions
                  THEN [label |-> TRUE,
                        contour |-> Some(RoiColour(positions[Roi(k)])),
                        ellipse |-> Some(EllipseColour(positions[Roi(k)]))]
                  ELSE [label |-> TRUE, contour |-> None, ellipse |-> None]]]

\* self._draw_results and i % self.draw_every_n == 0
ShowsFrame(k) == _draw_results /\ k % draw_every_n = 0
\* Variant: every frame is rendered, whether or not anything receives it.
RendersFrameAlways == TRUE

RendersFrame == ShowsFrame(i) \/ vw # None

SkipDraw ==
    /\ pc = "draw"
    /\ ~RendersFrame
    /\ pc' = "next"
    /\ ret' = NoCall
    /\ UNCHANGED <<ctor_vars, state_vars, run_vars, env_vars>>

DrawFrame ==
    /\ pc = "draw"
    /\ RendersFrame
    /\ tmp' = Some(DrawOnFrame(frame, _last_positions))
    /\ frame_io' = [frame_io EXCEPT !.renders = @ + 1]
    /\ pc' = "output"
    /\ ret' = NoCall
    /\ UNCHANGED <<ctor_vars, state_vars, vw, result_writer, i, t, frame, j,
                   data_row, abs_pos, raised, cam_n, window, encoder, sink,
                   log, stop_at>>

DrawRaises == RendersFrame /\ RaisesAt("draw", CvErrorKinds)

Shown(io) == IF ShowsFrame(i) THEN [io EXCEPT !.shown = @ + 1] ELSE io
Encoded(io) == IF vw # None THEN [io EXCEPT !.encoded = @ + 1] ELSE io

\* cv2.imshow / cv2.waitKey, then vw.write(tmp)
Output ==
    /\ pc = "output"
    /\ frame_io' = Encoded(Shown(frame_io))
    /\ encoder' = IF vw # None /\ encoder.state # "open"
                  THEN [encoder EXCEPT !.late_writes = @ + 1]
                  ELSE encoder
    /\ tmp' = None
    /\ pc' = "next"
    /\ ret' = NoCall
    /\ UNCHANGED <<ctor_vars, state_vars, vw, result_writer, i, t, frame, j,
                   data_row, abs_pos, raised, cam_n, window, sink, log,
                   stop_at>>

ImshowRaises == ShowsFrame(i) /\ RaisesAt("output", CvErrorKinds)

VwWriteRaises ==
    /\ pc = "output"
    /\ vw # None
    /\ frame_io' = Shown(frame_io)
    /\ Throw(CvErrorKinds, frame_io.tracked)
    /\ UNCHANGED <<ctor_vars, state_vars, vw, result_writer, i, t, frame, j,
                   data_row, abs_pos, tmp, cam_n, window, encoder, sink, stop_at>>

\* ------------------------------------------------ except and finally
\* except PSVException as e: logging.error(...); self._exception = e
ExceptPSV ==
    /\ pc = "except"
    /\ Val(raised).kind = "PSVException"
    /\ log' = [log EXCEPT !.end = "PSV exception"]
    /\ _exception' = raised
    /\ raised' = None
    /\ pc' = "finally"
    /\ ret' = NoCall
    /\ UNCHANGED <<ctor_vars, _force_stop, _last_positions, _last_time_stamp,
                   _frame_buffer, _is_running, vw, result_writer, i, t, frame, j,
                   data_row, abs_pos, tmp, cam_n, window, encoder, sink,
                   frame_io, stop_at>>

\* except Exception as e: logging.error(...); self._exception = e
ExceptOther ==
    /\ pc = "except"
    /\ Val(raised).kind # "PSVException"
    /\ log' = [log EXCEPT !.end = "undefined exception"]
    /\ _exception' = raised
    /\ raised' = None
    /\ pc' = "finally"
    /\ ret' = NoCall
    /\ UNCHANGED <<ctor_vars, _force_stop, _last_positions, _last_time_stamp,
                   _frame_buffer, _is_running, vw, result_writer, i, t, frame, j,
                   data_row, abs_pos, tmp, cam_n, window, encoder, sink,
                   frame_io, stop_at>>

\* Variant: the release sits at the end of the try body, not in finally.
ReleaseEncoderInTry(writer, enc) ==
    IF writer # None /\ log.raised = None
    THEN [enc EXCEPT !.state = "released", !.releases = @ + 1]
    ELSE enc

\* if not vw is None: vw.release()
ReleaseEncoder(writer, enc) ==
    IF writer # None
    THEN [enc EXCEPT !.state = "released", !.releases = @ + 1]
    ELSE enc

\* Variant: the flag is cleared at the end of the try body, so a run ended
\* by an exception leaves it set.
FinallyAfterTry(destroyed) ==
    /\ pc = "finally"
    /\ _is_running' = IF log.raised = None THEN FALSE ELSE _is_running
    /\ window' = IF window = "open"
                 THEN (IF destroyed THEN "closed" ELSE "teardown failed")
                 ELSE window
    /\ encoder' = ReleaseEncoder(vw, encoder)
    /\ log' = [log EXCEPT !.closing = TRUE, !.at = None]
    /\ vw' = None /\ result_writer' = None /\ frame' = None /\ j' = 0
    /\ data_row' = None /\ abs_pos' = None /\ tmp' = None
    /\ i' = -1 /\ t' = 0 /\ frame_io' = NoFrameIO /\ stop_at' = None
    /\ pc' = "idle"
    /\ ret' = NoCall
    /\ UNCHANGED <<ctor_vars, _exception, _force_stop, _last_positions,
                   _last_time_stamp, _frame_buffer, raised, cam_n, sink>>

\* The finally block; destroyed tells whether cv2.destroyAllWindows went
\* through or raised into the bare except.  run() returns and its locals die.
Finally(destroyed) ==
    /\ pc = "finally"
    /\ _is_running' = FALSE
    /\ window' = IF window = "open"
                 THEN (IF destroyed THEN "closed" ELSE "teardown failed")
                 ELSE window
    /\ encoder' = ReleaseEncoder(vw, encoder)
    /\ log' = [log EXCEPT !.closing = TRUE, !.at = None]
    /\ vw' = None /\ result_writer' = None /\ frame' = None /\ j' = 0
    /\ data_row' = None /\ abs_pos' = None /\ tmp' = None
    /\ i' = -1 /\ t' = 0 /\ frame_io' = NoFrameIO /\ stop_at' = None
    /\ pc' = "idle"
    /\ ret' = NoCall
    /\ UNCHANGED <<ctor_vars, _exception, _force_stop, _last_positions,
                   _last_time_stamp, _frame_buffer, raised, cam_n, sink>>

FinallyWindowsDestroyed == Finally(TRUE)
FinallyTeardownRaises == window = "open" /\ Finally(FALSE)

\* ---------------------------------------------------- public accessors
AttributeError == Some([kind |-> "AttributeError"])

\* Variant: the accessor returns its value whatever has been stored.
GuardedNever(exc, value) == [raised |-> None, value |-> value]

\* if self._exception is not None: raise self._exception -- else the value
Guarded(exc, value) ==
    IF exc # None THEN [raised |-> exc, value |-> None]
    ELSE [raised |-> None, value |-> value]

Returned(op, r) == [op |-> op, raised |-> r.raised, value |-> r.value]

\* return self._last_positions: what the caller receives is the dict object
\* the Monitor itself holds and writes to, not a copy of its contents.
LastPositionsObject == [ref |-> "self._last_positions"]

\* What the holder of a value returned by last_positions reads in it when
\* the Monitor's table has the contents positions.
Observed(value, positions) ==
    IF value = LastPositionsObject THEN positions ELSE value

LastPositions ==
    /\ Constructed
    /\ ret' = Returned("last_positions",
                       Guarded(_exception, Some(LastPositionsObject)))
    /\ UNCHANGED <<pc, ctor_vars, state_vars, run_vars, env_vars>>

\* time_from_start = self._last_time_stamp / 1e3
TimeFromStart(ms) == [num |-> ms, den |-> 1000]

LastTimeStamp ==
    /\ Constructed
    /\ ret' = Returned("last_time_stamp",
                       Guarded(_exception, Some(TimeFromStart(_last_time_stamp))))
    /\ UNCHANGED <<pc, ctor_vars, state_vars, run_vars, env_vars>>

\* self._draw_on_frame(self._frame_buffer): None has no copy()
LastDrawnFrame ==
    /\ Constructed
    /\ ret' = IF _exception = None /\ _frame_buffer = None
              THEN [op |-> "last_drawn_frame", raised |-> AttributeError,
                    value |-> None]
              ELSE Returned("last_drawn_frame",
                            Guarded(_exception,
                                    IF _frame_buffer = None THEN None
                                    ELSE Some(DrawOnFrame(_frame_buffer,
                                                          _last_positions))))
    /\ UNCHANGED <<pc, ctor_vars, state_vars, run_vars, env_vars>>

ResultFiles ==
    /\ Constructed
    /\ ret' = Returned("result_files", Guarded(_exception, Some(<<_result_file>>)))
    /\ UNCHANGED <<pc, ctor_vars, state_vars, run_vars, env_vars>>

\* Positions inside the try block of run().
TryPcs == {"namedWindow", "resultWriter", "next", "check", "videoWriter",
           "track", "position", "upsert", "flush", "draw", "output"}
InRun == pc \in TryPcs \cup {"except", "finally"}

\* Variant: stop() flips the flag, so that a second call withdraws the first.
StopToggles ==
    /\ Constructed
    /\ LET r == Guarded(_exception, Some("None"))
       IN  /\ ret' = [op |-> "stop", raised |-> r.raised, value |-> None]
           /\ _force_stop' = IF r.raised = None THEN ~_force_stop ELSE _force_stop
           /\ stop_at' = IF r.raised = None /\ InRun /\ ~_force_stop
                         THEN Some(IF pc = "check" THEN i - 1 ELSE i)
                         ELSE stop_at
    /\ UNCHANGED <<pc, ctor_vars, _exception, _last_positions, _last_time_stamp,
                   _frame_buffer, _is_running, run_vars, cam_n, window,
                   encoder, sink, frame_io, log>>

\* stop(): raise the stored exception, else self._force_stop = True
Stop ==
    /\ Constructed
    /\ LET r == Guarded(_exception, Some("None"))
       IN  /\ ret' = [op |-> "stop", raised |-> r.raised, value |-> None]
           /\ _force_stop' = IF r.raised = None THEN TRUE ELSE _force_stop
           /\ stop_at' = IF r.raised = None /\ InRun /\ ~_force_stop
                         THEN Some(IF pc = "check" THEN i - 1 ELSE i)
                         ELSE stop_at
    /\ UNCHANGED <<pc, ctor_vars, _exception, _last_positions, _last_time_stamp,
                   _frame_buffer, _is_running, run_vars, cam_n, window,
                   encoder, sink, frame_io, log>>

\* ------------------------------------------------------- specification
Next ==
    \/ Construct
    \/ RunStart
    \/ NamedWindow
    \/ NamedWindowRaises
    \/ MakeResultWriter
    \/ ResultWriterRaises
    \/ CameraNext
    \/ CameraExhausted
    \/ CameraRaises
    \/ StopBreak
    \/ TimeoutBreak
    \/ RecordFrame
    \/ OpenVideoWriter
    \/ VideoWriterRaises
    \/ TrackerYieldsNothing
    \/ TrackerYieldsRow
    \/ TrackerRaises
    \/ GetLastPosition
    \/ GetLastPositionRaises
    \/ Upsert
    \/ WriteRaises
    \/ Flush
    \/ FlushRaises
    \/ SkipDraw
    \/ DrawFrame
    \/ DrawRaises
    \/ Output
    \/ ImshowRaises
    \/ VwWriteRaises
    \/ ExceptPSV
    \/ ExceptOther
    \/ FinallyWindowsDestroyed
    \/ FinallyTeardownRaises
    \/ Stop

\* Construction, run() and stop().
Spec == Init /\ [][Next]_vars

\* The same, with the read accessors called from outside at any moment.
NextCalls ==
    \/ Next
    \/ LastPositions
    \/ LastTimeStamp
    \/ LastDrawnFrame
    \/ ResultFiles

SpecCalls == Init /\ [][NextCalls]_vars

\* The steps of run() when no collaborator raises.
RunStep ==
    \/ NamedWindow
    \/ MakeResultWriter
    \/ CameraNext
    \/ CameraExhausted
    \/ StopBreak
    \/ TimeoutBreak
    \/ RecordFrame
    \/ OpenVideoWriter
    \/ TrackerYieldsNothing
    \/ TrackerYieldsRow
    \/ GetLastPosition
    \/ Upsert
    \/ Flush
    \/ SkipDraw
    \/ DrawFrame
    \/ Output
    \/ FinallyWindowsDestroyed

NextQuiet ==
    \/ Construct
    \/ RunStart
    \/ RunStep
    \/ Stop

\* Construction, run() and stop() with collaborators that never raise; a
\* call of run() that has begun keeps executing (the thread is scheduled and
\* every collaborator call returns).
SpecQuiet == Init /\ [][NextQuiet]_vars /\ WF_vars(RunStep)

\* ================================================================ claims
Args == Val(ctor_args)
\* The configured maximum duration D, in the camera's unit (ms).
DurationMs == Val(Args.max_duration) * 1000
\* Positions of run() at which a frame is being processed.
ProcessingPcs == {"videoWriter", "track", "position", "upsert", "flush", "draw",
                  "output"}
\* Positions of run() inside the for loop.
LoopPcs == {"next", "check"} \cup ProcessingPcs

\* C1: when a collaborator raises during run(), the loop ends there: from
\* the raise on no further unit is invoked and no further frame acquired,
\* the exception raised is the one stored, and running is false once run()
\* has returned.
C1_FatalErrorEndsLoop ==
    log.raised # None =>
        /\ pc \in {"except", "finally", "idle"}
        /\ pc # "idle" =>
              /\ log.at # None
              /\ i = Val(log.at).i
              /\ frame_io.tracked = Val(log.at).tracked
              /\ cam_n = Val(log.at).cam_n
        /\ pc \in {"finally", "idle"} => _exception = log.raised
        /\ pc = "idle" => ~_is_running

\* First of two units raises on the second frame: the second unit is not
\* invoked and the exception is stored.
C1_Witness ==
    /\ pc = "finally"
    /\ log.raised # None /\ _exception = log.raised
    /\ i = 1 /\ NUnits = 2 /\ frame_io.tracked = <<1>>

\* C2: with an exception stored, every accessor call and stop() raises that
\* exception and returns nothing, and stop() leaves the stop flag alone.
C2_AccessorsRaiseStored ==
    [][ (_exception # None /\ ret' # NoCall) =>
            /\ ret'.raised = _exception
            /\ ret'.value = None
            /\ _force_stop' = _force_stop ]_vars

\* stop() called after a fatal run: it raised the stored exception and the
\* flag is still clear.
C2_Witness ==
    /\ ret.op = "stop" /\ _exception # None /\ ret.raised = _exception
    /\ ~_force_stop /\ pc = "idle"

\* C3: the encoder of a run is opened at most once, only with video_out
\* set and on the frame of index 0; it is open while a frame is processed
\* when video_out is set; it is not released inside the loop, it is released
\* exactly once by the time run() returns, and nothing is written after.
C3_EncoderLifecycle ==
    /\ encoder.opens <= 1
    /\ encoder.opens = 1 => (_video_out # None /\ encoder.opened_at = Some(0))
    /\ (encoder.state = "unopened") <=> (encoder.opens = 0)
    /\ (encoder.state = "released") <=> (encoder.releases = 1)
    /\ encoder.releases <= encoder.opens
    /\ (pc \in ProcessingPcs \ {"videoWriter"} /\ _video_out # None) =>
            encoder.state = "open"
    /\ pc \in TryPcs \cup {"except", "finally"} => encoder.releases = 0
    /\ pc = "idle" => encoder.releases = encoder.opens
    /\ encoder.late_writes = 0

\* A run that opened the encoder and ended on an exception has released it.
C3_Witness ==
    /\ pc = "idle" /\ log.raised # None
    /\ encoder.opens = 1 /\ encoder.releases = 1 /\ encoder.state = "released"

\* C4: when stop() sets the flag while frame k is in progress, no frame of
\* index above k + 1 is reached, and frame k + 1 is not processed: its check
\* ends the loop, logged as an external request, with no exception stored.
C4_StopLatency ==
    stop_at # None =>
        LET k == Val(stop_at) IN
        /\ i <= k + 1
        /\ (i = k + 1 /\ pc # "check") =>
              /\ pc = "finally"
              /\ log.end = "stop request"
              /\ log.raised = None
              /\ k >= 0 => _exception = None

\* stop() during the first frame, the loop ended on the check of the second.
C4_Witness ==
    /\ pc = "finally" /\ stop_at = Some(0) /\ i = 1
    /\ log.end = "stop request" /\ _exception = None

\* C5 as stated: the frame whose timestamp exceeds D is not processed, ends
\* the loop, and that end is logged as a timeout, with no exception.
C5_TimeoutAlwaysLogged ==
    (Constructed /\ i >= 0 /\ t > DurationMs /\ pc # "check") =>
        /\ pc = "finally"
        /\ log.end = "timeout"
        /\ log.raised = None

\* C5 amended: the frame whose timestamp exceeds D is not processed and ends
\* the loop with no exception; the end is logged as a timeout unless a stop
\* request was pending at the check, which is then what is logged.
C5_TimeoutEndsLoop ==
    (Constructed /\ i >= 0 /\ t > DurationMs /\ pc # "check") =>
        /\ pc = "finally"
        /\ log.raised = None
        /\ log.end = IF stop_at # None /\ Val(stop_at) < i
                     THEN "stop request" ELSE "timeout"

\* The second frame came with a timestamp above D and no stop was pending.
C5_Witness ==
    /\ pc = "finally" /\ i = 1 /\ t > DurationMs /\ log.end = "timeout"
    /\ _last_time_stamp <= DurationMs /\ ~_force_stop

\* C6 as stated: a constructor call without max_duration (and a
\* well-formed interactor list) succeeds, and no run of such a Monitor is
\* ended by the timeout.
C6_NoDurationConstructs ==
    (ctor_args # None /\ Args.max_duration = None) =>
        /\ (Args.interactors = None \/ Val(Args.interactors) = Args.rois) =>
              (ctor_error = None /\ pc # "ctor_failed")
        /\ log.end # "timeout"

\* C7: a step changes _last_positions only by storing, under the ROI of the
\* unit just invoked, the position that unit reported; when the unit
\* reported no position, and in every other step, the table is unchanged.
C7_LastPositionsFollowUnits ==
    [][ IF pc = "upsert" /\ pc' # "upsert" /\ abs_pos # None
        THEN _last_positions' =
                [r \in DOMAIN _last_positions \cup {_unit_trackers[j].roi} |->
                    IF r = _unit_trackers[j].roi THEN Val(abs_pos)
                    ELSE _last_positions[r]]
        ELSE _last_positions' = _last_positions ]_vars

\* After the second frame ROI 1 holds a newer position than its first one
\* would be, and ROI 2 holds its own.
C7_Witness ==
    /\ pc = "flush" /\ i = 1
    /\ DOMAIN _last_positions = {1, 2}
    /\ _last_positions[1].x = 2 /\ _last_positions[2].x = 1
    /\ _frame_buffer = Some(2)

\* C8: a constructor call whose interactor list differs in length from the
\* ROI list fails: no object, nothing stored as fatal error, no frame
\* acquired, no unit invoked.
C8_MismatchFailsConstruction ==
    (ctor_args # None /\ Args.interactors # None
        /\ Val(Args.interactors) # Args.rois) =>
        /\ pc = "ctor_failed"
        /\ ctor_error # None
        /\ _exception = None
        /\ cam_n = 0 /\ i = -1 /\ frame_io = NoFrameIO
        /\ ~_is_running

\* The mismatch is what made the call fail.
C8_Witness ==
    /\ pc = "ctor_failed" /\ ctor_error = Some("ValueError")
    /\ Val(Args.interactors) # Args.rois

\* C9 as stated: with an exception stored by an earlier run, run() does not
\* run again: running stays false and no frame is acquired.
C9_FatalErrorIsTerminal ==
    (_exception # None /\ log.raised = None) => (~_is_running /\ i = -1)

\* C10 as stated: when run() has returned, the window, the encoder and the
\* result sink it opened have been released.
C10_ResourcesReleased ==
    (pc = "idle" /\ log.closing) =>
        /\ window # "open"
        /\ encoder.state # "open"
        /\ sink # "open"

\* C11 as stated: what last_positions returned is a snapshot: the table its
\* caller reads in the returned value is the same after any later step of
\* the Monitor.
C11_ReturnsSnapshot ==
    [][ (ret.op = "last_positions" /\ ret.raised = None) =>
            Observed(Val(ret.value), _last_positions')
                = Observed(Val(ret.value), _last_positions) ]_vars

\* C12: with no exception stored, a stop() call made when the flag is
\* already set returns normally and changes nothing of the Monitor or of
\* its run, and any stop() call leaves the flag set: n calls leave the
\* state one call leaves.
C12_StopIdempotent ==
    [][ (ret'.op = "stop" /\ _exception = None) =>
            /\ ret'.raised = None
            /\ _force_stop'
            /\ _force_stop =>
                  UNCHANGED <<pc, ctor_args, ctor_error, obj_vars, run_vars,
                              cam_n, window, encoder, sink, frame_io, log,
                              stop_at>> ]_vars

\* The run was ended by a stop request, and stop() has just been called
\* once more.
C12_Witness ==
    /\ pc = "idle" /\ log.end = "stop request" /\ _exception = None
    /\ ret.op = "stop" /\ ret.raised = None /\ _force_stop

\* C13: _is_running is false before __init__ and until run() reaches its
\* loop, true at every position inside the loop, and false once run() has
\* returned, whichever way the loop ended (exhausted camera, timeout, stop
\* request, exception).
C13_RunningDuringLoop ==
    /\ pc \in {"new", "ctor_failed", "namedWindow", "resultWriter"} =>
            ~_is_running
    /\ pc \in LoopPcs => _is_running
    /\ pc = "idle" => ~_is_running

\* A run that processed a frame and then ended on an exception has
\* returned, and the flag is clear.
C13_Witness ==
    /\ pc = "idle" /\ log.closing /\ log.raised # None
    /\ _frame_buffer # None /\ ~_is_running

\* The ROIs of all tracking units, in the order of the list.
AllRois == [k \in 1..NUnits |-> Roi(k)]

\* C14: a stop request made while frame k is in progress changes nothing of
\* that frame: when frame k is over every unit has been invoked, in list
\* order, the sink has been flushed and the frame rendered and output as
\* configured; the request is logged only by the check of a later frame,
\* and no position inside the processing of a frame ends the loop on it.
C14_StopDoesNotPreempt ==
    /\ pc \in ProcessingPcs => log.end = "none"
    /\ (stop_at # None /\ log.end = "stop request") => i > Val(stop_at)
    /\ (stop_at = Some(i) /\ i >= 0) =>
          /\ pc = "track" => frame_io.tracked = SubSeq(AllRois, 1, j - 1)
          /\ pc \in {"position", "upsert"} =>
                frame_io.tracked = SubSeq(AllRois, 1, j)
          /\ pc \in {"flush", "draw", "output", "next"} =>
                frame_io.tracked = AllRois
          /\ pc \in {"draw", "output", "next"} =>
                frame_io.flushes = IF result_writer # None THEN 1 ELSE 0
          /\ pc = "next" =>
                /\ frame_io.renders = IF RendersFrame THEN 1 ELSE 0
                /\ frame_io.shown = IF ShowsFrame(i) THEN 1 ELSE 0
                /\ frame_io.encoded = IF vw # None THEN 1 ELSE 0
                /\ log.end = "none" /\ log.raised = None

\* stop() was called before the first frame was output; the frame has been
\* completed: both units, the flush, the rendering and the encoder.
C14_Witness ==
    /\ pc = "next" /\ ret = NoCall /\ stop_at = Some(0) /\ i = 0
    /\ NUnits = 2 /\ frame_io.tracked = <<1, 2>>
    /\ frame_io.flushes = 1 /\ frame_io.renders = 1 /\ frame_io.encoded = 1

\* The sink calls of the current frame are well formed: at most one flush,
\* none before the unit loop is over, one once it is, and the appends are
\* for distinct ROIs in the order of the ROI list.
SinkCallsInOrder ==
    result_writer # None =>
        /\ frame_io.flushes <= 1
        /\ pc \in {"check", "videoWriter", "track", "position", "upsert",
                   "flush"} => frame_io.flushes = 0
        /\ (pc \in {"draw", "output"} \/ (pc = "next" /\ i >= 0)) =>
                frame_io.flushes = 1
        /\ \A a, b \in 1..Len(frame_io.written) :
                a < b => frame_io.written[a] < frame_io.written[b]
        /\ \A a \in 1..Len(frame_io.written) :
                \E k \in 1..NUnits : Roi(k) = frame_io.written[a]

\* C15: with a result sink, a frame that is processed to its end has had
\* exactly one flush, made after all its appends; a unit that yielded a
\* data row gets one append, a unit that yielded nothing gets none, the
\* appends follow the ROI list, and no frame has a second flush.
C15_FlushOncePerFrame ==
    [][ /\ SinkCallsInOrder'
        /\ (frame_io'.written # frame_io.written /\ frame_io'.written # <<>>) =>
              /\ pc = "upsert" /\ data_row # None
              /\ frame_io.flushes = 0
              /\ frame_io'.written = Append(frame_io.written, Roi(j))
        /\ (result_writer # None /\ pc = "upsert" /\ pc' \in {"track", "flush"}) =>
              frame_io'.written = Append(frame_io.written, Roi(j))
        /\ (pc = "track" /\ pc' \in {"track", "flush"}) =>
              frame_io'.written = frame_io.written
        /\ frame_io'.flushes > frame_io.flushes =>
              (pc = "flush" /\ frame_io.tracked = AllRois) ]_vars

\* Second frame, two units: the first yielded nothing, the second a row;
\* one append, then the flush.
C15_Witness ==
    /\ pc = "draw" /\ i = 1 /\ result_writer # None /\ NUnits = 2
    /\ frame_io.tracked = <<1, 2>> /\ frame_io.written = <<2>>
    /\ frame_io.flushes = 1

\* C16: when frame i has been processed it has been shown once if display
\* is on and i is a multiple of draw_every_n, and not at all otherwise; it
\* has been written to the encoder once if video_out is set, and not at all
\* otherwise; it has been rendered once if it was shown or written, and not
\* at all otherwise.  No frame is rendered, shown or written twice.
C16_OutputsPerFrame ==
    /\ frame_io.renders <= 1 /\ frame_io.shown <= 1 /\ frame_io.encoded <= 1
    /\ frame_io.shown + frame_io.encoded > 0 => frame_io.renders = 1
    /\ (pc = "next" /\ i >= 0) =>
          /\ frame_io.shown = 1 <=> (_draw_results /\ i % draw_every_n = 0)
          /\ frame_io.encoded = 1 <=> _video_out # None
          /\ frame_io.renders = 1 <=>
                (frame_io.shown = 1 \/ frame_io.encoded = 1)

\* Display every second frame and recording: the second frame (index 1)
\* was rendered once, written to the encoder and not shown.
C16_Witness ==
    /\ pc = "next" /\ i = 1 /\ _draw_results /\ draw_every_n = 2
    /\ _video_out # None
    /\ frame_io.renders = 1 /\ frame_io.shown = 0 /\ frame_io.encoded = 1

\* C17: _last_positions starts empty; a ROI gets an entry only in the step
\* that stores the position its unit, just invoked, has reported; and no
\* step removes an entry.
C17_EntriesOnlyGrow ==
    /\ DOMAIN _last_positions = {}
    /\ [][ /\ DOMAIN _last_positions \subseteq DOMAIN _last_positions'
           /\ \A r \in DOMAIN _last_positions' \ DOMAIN _last_positions :
                /\ pc = "upsert" /\ abs_pos # None
                /\ r = Roi(j)
                /\ frame_io.tracked[Len(frame_io.tracked)] = r
                /\ _last_positions'[r] = Val(abs_pos) ]_vars

\* Both units were invoked on the first frame and only the second reported
\* a position: ROI 2 has an entry, ROI 1 has none.
C17_Witness ==
    /\ pc = "flush" /\ i = 0 /\ frame_io.tracked = <<1, 2>>
    /\ DOMAIN _last_positions = {2}

\* C18 as stated: on a rendered frame every ROI has its label and its
\* outline; without a known position the outline has the colour of "no
\* interaction" and there is no ellipse, with one the outline is coloured by
\* has_interacted and the ellipse by is_inferred.
C18_OutlineAlwaysDrawn ==
    tmp # None =>
        \A k \in 1..NUnits :
            LET d == Val(tmp).drawn[k] IN
            /\ d.label
            /\ d.contour # None
            /\ IF Roi(k) \in DOMAIN _last_positions
               THEN LET pos == _last_positions[Roi(k)] IN
                    /\ d.contour = Some(IF pos.has_interacted THEN "green"
                                        ELSE "magenta")
                    /\ d.ellipse = Some(IF pos.is_inferred THEN "blue"
                                        ELSE "cyan")
               ELSE d.contour = Some("magenta") /\ d.ellipse = None

\* C19: with a camera that yields finitely many frames and collaborators
\* that never raise, a run() that has begun returns; a frame that passed the
\* stop and timeout tests is processed to its end (all units, recorded as
\* the current frame); and when run() has returned _is_running is false and
\* no exception is stored, the loop having ended on the exhausted camera,
\* a stop request or the timeout.
C19_RunTerminates ==
    /\ []((pc = "next" /\ i >= 0) =>
            (_frame_buffer = frame /\ _last_time_stamp = t
                /\ frame_io.tracked = AllRois))
    /\ []((pc = "idle" /\ log.closing) =>
            (~_is_running /\ _exception = None /\ log.raised = None
                /\ log.end \in {"none", "stop request", "timeout"}))
    /\ (InRun ~> (pc = "idle" /\ log.closing))

\* The camera was exhausted after two processed frames; run() has returned
\* with nothing logged as the cause and nothing stored.
C19_Witness ==
    /\ pc = "idle" /\ log.closing /\ log.end = "none" /\ cam_n = 2
    /\ _frame_buffer = Some(2) /\ ~_is_running /\ _exception = None

\* C20: the stored timestamp never exceeds the maximum duration, and a
\* frame on which the loop ends by stop request or timeout is not the
\* stored one: the frame buffer is still the frame before it (or what it
\* was when run() began, if the loop ends on its first frame).
C20_StoredSnapshotWithinLimit ==
    /\ Constructed => _last_time_stamp <= DurationMs
    /\ (pc = "finally" /\ log.end \in {"stop request", "timeout"}) =>
          /\ frame # None
          /\ _frame_buffer # frame
          /\ _frame_buffer # None => Val(_frame_buffer) < Val(frame)
          /\ i >= 1 => _frame_buffer = Some(Val(frame) - 1)

\* The second frame came with a timestamp above D: the loop ended on it and
\* the stored timestamp and frame are those of the first.
C20_Witness ==
    /\ pc = "finally" /\ log.end = "timeout" /\ i = 1 /\ t = 1500
    /\ frame = Some(2) /\ _frame_buffer = Some(1) /\ _last_time_stamp = 1000

====
